---- MODULE Spec2Model ----
(***************************************************************************)
(* The logging facade of gosnowflake (log.go): defaultLogger over a logrus *)
(* engine, the enabled gate, the entry bridge, secret masking at format    *)
(* time, context field extraction, and the close-on-replace file lifecycle *)
(* around the process-wide logger.                                         *)
(***************************************************************************)
EXTENDS Integers, Sequences, FiniteSets, TLC

VARIABLES
    level,      \* log.inner.Level of each defaultLogger, logrus numbering (0 panic .. 6 trace)
    enabled,    \* log.enabled
    formatter,  \* log.inner.Formatter: "sf" (sfTextFormatter) or "plain" (rlog.TextFormatter)
    out,        \* log.inner.Out: the sink records are written to
    file,       \* log.file: the file registered for close on replace, or NoFile
    logger,     \* the process-wide singleton (package variable logger)
    closes,     \* per file, how many times Close() has been called on it
    hooks,      \* clientLogContextHooks: registered key -> hook
    regLog,     \* history: the RegisterLogContextHook calls, in order
    entry,      \* the entryBridge most recently returned by a With* call, or NoEntry
    lastSet,    \* history: per logger, how its most recent SetLogLevel call went
    last,       \* history: the operation that just returned, with what it saw and did
    th,         \* per caller thread, the call it is inside of and where
    exited      \* the process has terminated (logrus Exit, or an unrecovered panic)

vars == <<level, enabled, formatter, out, file, logger, closes, hooks, regLog,
          entry, lastSet, last, th, exited>>

-----------------------------------------------------------------------------
(* Bounds of the model.                                                    *)

\* the most contexts handed to one WithContext call
MaxCtxs == 2
\* the most RegisterLogContextHook calls in one run
MaxRegs == 2
\* Close() calls counted per file (the counter saturates here)
MaxCloses == 2

Loggers == {"L1", "L2"}
Files == {"F1", "F2"}
Threads == {"T1", "T2"}
NoFile == "nil"
Stderr == "stderr"
NoLogger == "-"

-----------------------------------------------------------------------------
(* Strings are sequences of characters, so that strings.ToUpper and        *)
(* strings.ToLower are computed and not assumed.                           *)

LowerChars == <<"a","b","c","d","e","f","g","i","k","l","n","o","p","r","t","u","w">>
UpperChars == <<"A","B","C","D","E","F","G","I","K","L","N","O","P","R","T","U","W">>

IndexIn(cs, c) == IF \E i \in 1..Len(cs) : cs[i] = c
                  THEN CHOOSE i \in 1..Len(cs) : cs[i] = c
                  ELSE 0

ToUpperChar(c) == IF IndexIn(LowerChars, c) > 0 THEN UpperChars[IndexIn(LowerChars, c)] ELSE c
ToLowerChar(c) == IF IndexIn(UpperChars, c) > 0 THEN LowerChars[IndexIn(UpperChars, c)] ELSE c

ToUpper(s) == [i \in 1..Len(s) |-> ToUpperChar(s[i])]
ToLower(s) == [i \in 1..Len(s) |-> ToLowerChar(s[i])]

sPanic   == <<"p","a","n","i","c">>
sFatal   == <<"f","a","t","a","l">>
sError   == <<"e","r","r","o","r">>
sWarn    == <<"w","a","r","n">>
sWarning == <<"w","a","r","n","i","n","g">>
sInfo    == <<"i","n","f","o">>
sDebug   == <<"d","e","b","u","g">>
sTrace   == <<"t","r","a","c","e">>
sOFF     == <<"O","F","F">>
sUnknown == <<"u","n","k","n","o","w","n">>

\* the names logrus.ParseLevel recognizes, after lower-casing
SeverityNames == {sPanic, sFatal, sError, sWarn, sWarning, sInfo, sDebug, sTrace}

\* the level names SetLogLevel is called with
LevelInputs ==
    SeverityNames
    \cup {<<"I","N","F","O">>, <<"W","a","r","n">>, <<"T","R","A","C","E">>, <<"E","r","r","o","R">>}
    \cup {sOFF, <<"o","f","f">>, <<"O","f","f">>}
    \cup {sUnknown, <<>>, <<"o","f">>}

-----------------------------------------------------------------------------
(* The logrus engine, as far as log.go uses it.                            *)

\* the switch of logrus.ParseLevel over the lower-cased name; any other name fails
ParseLevelStrict(name) ==
    CASE name = sPanic   -> [ok |-> TRUE, lv |-> 0]
      [] name = sFatal   -> [ok |-> TRUE, lv |-> 1]
      [] name = sError   -> [ok |-> TRUE, lv |-> 2]
      [] name = sWarn    -> [ok |-> TRUE, lv |-> 3]
      [] name = sWarning -> [ok |-> TRUE, lv |-> 3]
      [] name = sInfo    -> [ok |-> TRUE, lv |-> 4]
      [] name = sDebug   -> [ok |-> TRUE, lv |-> 5]
      [] name = sTrace   -> [ok |-> TRUE, lv |-> 6]
      [] OTHER           -> [ok |-> FALSE, lv |-> 0]

ParseLevelCaseSensitive(name) == ParseLevelStrict(name)

\* logrus.ParseLevel, as SetLogLevel calls it
ParseLevel(name) == ParseLevelStrict(ToLower(name))

\* logrus Level.String(): the canonical name of a level (WarnLevel is "warning")
LevelString(lv) ==
    CASE lv = 0 -> sPanic
      [] lv = 1 -> sFatal
      [] lv = 2 -> sError
      [] lv = 3 -> sWarning
      [] lv = 4 -> sInfo
      [] lv = 5 -> sDebug
      [] lv = 6 -> sTrace

\* logrus Logger.IsLevelEnabled
IsLevelEnabled(l, lv) == level[l] >= lv

MethodNames == {"Trace", "Debug", "Info", "Print", "Warn", "Warning", "Error", "Fatal", "Panic"}
\* plain (Info), formatted (Infof) and line (Infoln) forms
Forms == {"", "f", "ln"}

MethodLevelPrintAsWarn(m) ==
    CASE m = "Trace" -> 6 [] m = "Debug" -> 5 [] m = "Info" -> 4 [] m = "Print" -> 3
      [] m = "Warn" -> 3 [] m = "Warning" -> 3 [] m = "Error" -> 2
      [] m = "Fatal" -> 1 [] m = "Panic" -> 0

\* the level at which the engine logs each method family: log.inner.Print* is
\* logrus' Print family, which logs at InfoLevel
MethodLevel(m) ==
    CASE m = "Trace" -> 6 [] m = "Debug" -> 5 [] m = "Info" -> 4 [] m = "Print" -> 4
      [] m = "Warn" -> 3 [] m = "Warning" -> 3 [] m = "Error" -> 2
      [] m = "Fatal" -> 1 [] m = "Panic" -> 0

-----------------------------------------------------------------------------
(* Message text is a sequence of tokens; a token that follows the token    *)
(* password=' is the secret value with its closing quote.                  *)

PwToken == "password='"
Redacted == "****"
Texts == {<<"hello">>, <<"create user testuser ", PwToken, "testpassword'">>}

\* maskSecrets (secret_detector.go, not among the sources): the value of a
\* password='...' clause is replaced by ****, the rest is kept as it is
maskSecrets(text) ==
    [i \in 1..Len(text) |-> IF i > 1 /\ text[i-1] = PwToken THEN Redacted ELSE text[i]]

FormatUnmasked(f, text) == text

\* sfTextFormatter.Format masks the message, then renders as rlog.TextFormatter does;
\* a plain rlog.TextFormatter renders the message as it is
Format(f, text) == IF f = "sf" THEN maskSecrets(text) ELSE text

-----------------------------------------------------------------------------
(* Fields, entries and records.                                            *)

EmptyFields == [k \in {} |-> ""]
NoTime == "now"
NoEntry == [lg |-> NoLogger, data |-> EmptyFields, time |-> NoTime]
NoRec == [lg |-> NoLogger, level |-> 0 - 1, msg |-> <<>>, data |-> EmptyFields,
          time |-> NoTime, sink |-> Stderr, lost |-> FALSE]

\* what the engine hands to the output writer for one record; the write is lost
\* when the sink is a file that has been closed
Render(l, lv, text, data, time) ==
    [lg |-> l, level |-> lv, msg |-> Format(formatter[l], text), data |-> data,
     time |-> time, sink |-> out[l], lost |-> (out[l] \in Files /\ closes[out[l]] > 0)]

GateOpen(l) == TRUE

\* the `if log.enabled` of every leveled method of defaultLogger
Gate(l) == enabled[l]

\* entryBridge embeds *rlog.Entry: its leveled methods are logrus' own
EntryGate(l) == TRUE

\* GetLogLevel
GetLogLevel(l) == IF ~enabled[l] THEN sOFF ELSE LevelString(level[l])

\* the shape of the history record; op "CreateDefaultLogger" is the construction
NoHist == [op |-> "CreateDefaultLogger", lg |-> NoLogger, via |-> "-", method |-> "-",
           form |-> "", text |-> <<>>, name |-> <<>>, err |-> FALSE, wrote |-> FALSE,
           rec |-> NoRec, enabledBefore |-> TRUE, levelBefore |-> 0, arg |-> "-",
           fileBefore |-> NoFile, ctxs |-> <<>>, calls |-> 0, new |-> NoLogger,
           closed |-> NoFile, closeErr |-> FALSE, errVia |-> NoLogger]

IdleThread == [pc |-> "idle", lg |-> NoLogger, new |-> NoLogger, method |-> "-",
               rec |-> NoRec, preSwap |-> FALSE, closeErr |-> FALSE, closed |-> NoFile]

\* no call is under way and the process is alive: the callers of one sequential
\* program, and the configuration calls of a concurrent one
Quiet == ~exited /\ \A t \in Threads : th[t].pc = "idle"

-----------------------------------------------------------------------------
(* Level and gate.                                                         *)

\* SetLogLevel storing what ParseLevel returned before looking at its error (the
\* zero Level, panic, on an unrecognized name)
SetLogLevelStoresUnchecked(l, name) ==
    /\ Quiet
    /\ LET newEnabled == ToUpper(name) # sOFF
           parsed == ParseLevel(name)
           failed == newEnabled /\ ~parsed.ok
       IN /\ enabled' = [enabled EXCEPT ![l] = newEnabled]
          /\ level' = IF newEnabled THEN [level EXCEPT ![l] = parsed.lv] ELSE level
          /\ lastSet' = [lastSet EXCEPT ![l] =
                            IF ~newEnabled THEN "off"
                            ELSE IF parsed.ok THEN "level" ELSE "failed"]
          /\ last' = [NoHist EXCEPT !.op = "SetLogLevel", !.lg = l, !.name = name,
                                    !.err = failed, !.enabledBefore = enabled[l],
                                    !.levelBefore = level[l]]
    /\ UNCHANGED <<formatter, out, file, logger, closes, hooks, regLog, entry, th, exited>>

\* defaultLogger.SetLogLevel
SetLogLevel(l, name) ==
    /\ Quiet
    /\ LET newEnabled == ToUpper(name) # sOFF
           parsed == ParseLevel(name)
           failed == newEnabled /\ ~parsed.ok
       IN /\ enabled' = [enabled EXCEPT ![l] = newEnabled]
          /\ level' = IF newEnabled /\ parsed.ok
                       THEN [level EXCEPT ![l] = parsed.lv]
                       ELSE level
          /\ lastSet' = [lastSet EXCEPT ![l] =
                            IF ~newEnabled THEN "off"
                            ELSE IF parsed.ok THEN "level" ELSE "failed"]
          /\ last' = [NoHist EXCEPT !.op = "SetLogLevel", !.lg = l, !.name = name,
                                    !.err = failed, !.enabledBefore = enabled[l],
                                    !.levelBefore = level[l]]
    /\ UNCHANGED <<formatter, out, file, logger, closes, hooks, regLog, entry, th, exited>>

\* defaultLogger.SetOutput
SetOutput(l, s) ==
    /\ Quiet
    /\ out' = [out EXCEPT ![l] = s]
    /\ last' = [NoHist EXCEPT !.op = "SetOutput", !.lg = l, !.arg = s]
    /\ UNCHANGED <<level, enabled, formatter, file, logger, closes, hooks, regLog,
                   entry, lastSet, th, exited>>

\* defaultLogger.SetFormatter
SetFormatter(l, f) ==
    /\ Quiet
    /\ formatter' = [formatter EXCEPT ![l] = f]
    /\ last' = [NoHist EXCEPT !.op = "SetFormatter", !.lg = l, !.arg = f]
    /\ UNCHANGED <<level, enabled, out, file, logger, closes, hooks, regLog,
                   entry, lastSet, th, exited>>

-----------------------------------------------------------------------------
(* Leveled calls.                                                          *)

\* what a leveled call of method family m does once it is past the facade (pass):
\* the engine writes one record when the logger's level admits the method's level
Outcome(pass, l, m, text, data, time) ==
    LET w == pass /\ IsLevelEnabled(l, MethodLevel(m))
    IN [wrote |-> w,
        rec |-> IF w THEN Render(l, MethodLevel(m), text, data, time) ELSE NoRec]

\* after the record: logrus' Fatal family calls Exit, its Panic family panics
\* (the caller may recover, or the process dies)
Ends(pass, m) ==
    IF pass /\ m = "Fatal" THEN {TRUE}
    ELSE IF pass /\ m = "Panic" THEN BOOLEAN
    ELSE {FALSE}

\* the 27 leveled methods of defaultLogger: Trace .. Panic, each plain, f and ln
LeveledCall(l, m, form, text) ==
    /\ Quiet
    /\ LET o == Outcome(Gate(l), l, m, text, EmptyFields, NoTime)
       IN last' = [NoHist EXCEPT !.op = "log", !.via = "logger", !.lg = l, !.method = m,
                                 !.form = form, !.text = text, !.wrote = o.wrote,
                                 !.rec = o.rec, !.enabledBefore = enabled[l],
                                 !.levelBefore = level[l]]
    /\ exited' \in Ends(Gate(l), m)
    /\ UNCHANGED <<level, enabled, formatter, out, file, logger, closes, hooks, regLog,
                   entry, lastSet, th>>

\* a leveled method of the entryBridge a With* call returned
EntryCall(m, form, text) ==
    /\ Quiet
    /\ entry # NoEntry
    /\ LET l == entry.lg
           o == Outcome(EntryGate(l), l, m, text, entry.data, entry.time)
       IN last' = [NoHist EXCEPT !.op = "log", !.via = "entry", !.lg = l, !.method = m,
                                 !.form = form, !.text = text, !.wrote = o.wrote,
                                 !.rec = o.rec, !.enabledBefore = enabled[l],
                                 !.levelBefore = level[l]]
    /\ exited' \in Ends(EntryGate(entry.lg), m)
    /\ UNCHANGED <<level, enabled, formatter, out, file, logger, closes, hooks, regLog,
                   entry, lastSet, th>>

-----------------------------------------------------------------------------
(* Context field extraction.                                               *)

SFSessionIDKey == "LOG_SESSION_ID"
SFSessionUserKey == "LOG_USER"
RequestIDCtxKey == "testRequestIDCtxKey"
LogKeys == <<SFSessionIDKey, SFSessionUserKey>>

\* a context is the map of the keys it holds a non-nil value for
Background == [k \in {} |-> <<>>]
CtxSet == {Background,
           (SFSessionIDKey :> <<"sessID1">>),
           (SFSessionIDKey :> <<"sessID2">>) @@ (SFSessionUserKey :> <<"admin">>),
           (SFSessionUserKey :> <<>>),
           (RequestIDCtxKey :> <<"123">>),
           (SFSessionUserKey :> <<"madison">>) @@ (RequestIDCtxKey :> <<"456">>)}
CtxLists == UNION {[1..n -> CtxSet] : n \in 0..MaxCtxs}

\* the keys hooks are registered under, one of them a well-known key's name
HookKeys == {"REQUEST_ID", SFSessionUserKey}
HookFns == {"getRequestKeyFunc", "getSessionFunc"}

\* the client's hooks: the request id of the context, or the session id, or ""
CallHook(h, ctx) ==
    IF h = "getRequestKeyFunc"
    THEN (IF RequestIDCtxKey \in DOMAIN ctx THEN ctx[RequestIDCtxKey] ELSE <<>>)
    ELSE (IF SFSessionIDKey \in DOMAIN ctx THEN ctx[SFSessionIDKey] ELSE <<>>)

\* fields[k] = v on a Go map
SetField(fields, k, v) == (k :> v) @@ fields

\* RegisterLogContextHook
RegisterLogContextHook(key, h) ==
    /\ Quiet
    /\ Len(regLog) < MaxRegs
    /\ hooks' = SetField(hooks, key, h)
    /\ regLog' = Append(regLog, [key |-> key, hook |-> h])
    /\ last' = [NoHist EXCEPT !.op = "RegisterLogContextHook", !.arg = key]
    /\ UNCHANGED <<level, enabled, formatter, out, file, logger, closes, entry, lastSet,
                   th, exited>>

\* `for _, ctx := range ctxs` under one well-known key
RECURSIVE KeyOverCtxs(_, _, _, _)
KeyOverCtxs(fields, key, ctxs, j) ==
    IF j > Len(ctxs) THEN fields
    ELSE KeyOverCtxs(IF key \in DOMAIN ctxs[j]
                     THEN SetField(fields, key, ctxs[j][key])
                     ELSE fields,
                     key, ctxs, j + 1)

\* `for i := 0; i < len(LogKeys); i++`
RECURSIVE WellKnownKeys(_, _, _)
WellKnownKeys(fields, ctxs, i) ==
    IF i > Len(LogKeys) THEN fields
    ELSE WellKnownKeys(KeyOverCtxs(fields, LogKeys[i], ctxs, 1), ctxs, i + 1)

\* `for _, ctx := range ctxs` under one hook; acc counts the hook calls made
RECURSIVE HookOverCtxs(_, _, _, _)
HookOverCtxs(acc, key, ctxs, j) ==
    IF j > Len(ctxs) THEN acc
    ELSE LET value == CallHook(hooks[key], ctxs[j])
         IN HookOverCtxs([fields |-> IF value # <<>>
                                     THEN SetField(acc.fields, key, value)
                                     ELSE acc.fields,
                          calls |-> acc.calls + 1],
                         key, ctxs, j + 1)

\* `for key, hook := range clientLogContextHooks`: Go visits the keys in any
\* order; each key writes only its own field, so the order does not show
RECURSIVE HookLoop(_, _, _)
HookLoop(acc, keys, ctxs) ==
    IF keys = {} THEN acc
    ELSE LET key == CHOOSE k \in keys : TRUE
         IN HookLoop(HookOverCtxs(acc, key, ctxs, 1), keys \ {key}, ctxs)

RECURSIVE KeyFirstCtx(_, _, _, _)
KeyFirstCtx(fields, key, ctxs, j) ==
    IF j > Len(ctxs) THEN fields
    ELSE IF key \in DOMAIN ctxs[j] THEN SetField(fields, key, ctxs[j][key])
    ELSE KeyFirstCtx(fields, key, ctxs, j + 1)

\* context2Fields with the first context holding a well-known key winning
context2FieldsFirstWins(ctxs) ==
    IF Len(ctxs) <= 0 THEN [fields |-> EmptyFields, calls |-> 0]
    ELSE HookLoop([fields |-> KeyFirstCtx(KeyFirstCtx(EmptyFields, LogKeys[1], ctxs, 1),
                                          LogKeys[2], ctxs, 1),
                   calls |-> 0],
                  DOMAIN hooks, ctxs)

\* context2Fields: the field map, and how many hook calls it took
context2Fields(ctxs) ==
    IF Len(ctxs) <= 0 THEN [fields |-> EmptyFields, calls |-> 0]
    ELSE HookLoop([fields |-> WellKnownKeys(EmptyFields, ctxs, 1), calls |-> 0],
                  DOMAIN hooks, ctxs)

-----------------------------------------------------------------------------
(* Enrichment: every With* returns a new entryBridge over log.inner.       *)

FieldValues == Texts
ErrValues == {<<"error">>}

NewEntry(l, data, time, op) ==
    /\ Quiet
    /\ entry' = [lg |-> l, data |-> data, time |-> time]
    /\ last' = [NoHist EXCEPT !.op = op, !.lg = l]
    /\ UNCHANGED <<level, enabled, formatter, out, file, logger, closes, hooks, regLog,
                   lastSet, th, exited>>

\* defaultLogger.WithField
WithField(l, key, value) == NewEntry(l, (key :> value), NoTime, "WithField")

\* defaultLogger.WithFields
WithFields(l, fields) == NewEntry(l, fields, NoTime, "WithFields")

\* defaultLogger.WithError: logrus keeps the error under the key "error"
WithError(l, err) == NewEntry(l, ("error" :> err), NoTime, "WithError")

\* defaultLogger.WithTime
WithTime(l, t) == NewEntry(l, EmptyFields, t, "WithTime")

\* defaultLogger.WithContext
WithContext(l, ctxs) ==
    /\ Quiet
    /\ LET got == context2Fields(ctxs)
       IN /\ entry' = [lg |-> l, data |-> got.fields, time |-> NoTime]
          /\ last' = [NoHist EXCEPT !.op = "WithContext", !.lg = l, !.ctxs = ctxs,
                                    !.calls = got.calls]
    /\ UNCHANGED <<level, enabled, formatter, out, file, logger, closes, hooks, regLog,
                   lastSet, th, exited>>

-----------------------------------------------------------------------------
(* The singleton and the close-on-replace file.                            *)

RejectsNever(l, f) == FALSE

\* `log.file != nil && log.file != file`
Rejects(l, f) == file[l] # NoFile /\ file[l] # f

\* defaultLogger.CloseFileOnLoggerReplace
CloseFileOnLoggerReplace(l, f) ==
    /\ Quiet
    /\ file' = IF Rejects(l, f) THEN file ELSE [file EXCEPT ![l] = f]
    /\ last' = [NoHist EXCEPT !.op = "CloseFileOnLoggerReplace", !.lg = l, !.arg = f,
                              !.fileBefore = file[l], !.err = Rejects(l, f)]
    /\ UNCHANGED <<level, enabled, formatter, out, logger, closes, hooks, regLog, entry,
                   lastSet, th, exited>>

\* SetLogger
SetLogger(l) ==
    /\ Quiet
    /\ logger' = l
    /\ last' = [NoHist EXCEPT !.op = "SetLogger", !.lg = l]
    /\ UNCHANGED <<level, enabled, formatter, out, file, closes, hooks, regLog, entry,
                   lastSet, th, exited>>

Running(t) == ~exited /\ th[t].pc = "idle"

\* Replace, first statement: SetLogger(newLogger). A leveled call of another
\* thread that is inside log at this moment began before the replacement.
ReplaceSwap(t, l, new) ==
    /\ Running(t)
    /\ logger' = new
    /\ th' = [u \in Threads |->
                IF u = t THEN [IdleThread EXCEPT !.pc = "swapped", !.lg = l, !.new = new]
                ELSE IF th[u].pc = "writing" /\ th[u].lg = l
                     THEN [th[u] EXCEPT !.preSwap = TRUE]
                     ELSE th[u]]
    /\ last' = [NoHist EXCEPT !.op = "Replace.SetLogger", !.lg = l, !.new = new,
                              !.fileBefore = file[l]]
    /\ UNCHANGED <<level, enabled, formatter, out, file, closes, hooks, regLog, entry,
                   lastSet, exited>>

\* file.Close(): a second Close of the same file fails; a first one may fail
CloseErrors(f) == IF closes[f] > 0 THEN {TRUE} ELSE BOOLEAN

\* Replace, second statement: closeLogFile(log.file) up to file.Close()
ReplaceClose(t) ==
    /\ ~exited
    /\ th[t].pc = "swapped"
    /\ LET f == file[th[t].lg]
       IN IF f = NoFile
          THEN /\ th' = [th EXCEPT ![t].pc = "closed"]
               /\ UNCHANGED closes
          ELSE /\ closes' = [closes EXCEPT ![f] = IF @ < MaxCloses THEN @ + 1 ELSE @]
               /\ \E e \in CloseErrors(f) :
                     th' = [th EXCEPT ![t].pc = "closed", ![t].closed = f, ![t].closeErr = e]
    /\ last' = [NoHist EXCEPT !.op = "Replace.Close", !.lg = th[t].lg, !.new = th[t].new,
                              !.fileBefore = file[th[t].lg]]
    /\ UNCHANGED <<level, enabled, formatter, out, file, logger, hooks, regLog, entry,
                   lastSet, exited>>

ErrTargetReceiver(t) == th[t].lg

\* the logger closeLogFile reports through: the package variable logger
ErrTarget(t) == logger

\* closeLogFile, after Close: `if err != nil { logger.Errorf(...) }`, and return
ReplaceReturn(t) ==
    /\ ~exited
    /\ th[t].pc = "closed"
    /\ LET via == ErrTarget(t)
           o == Outcome(th[t].closeErr /\ Gate(via), via, "Error",
                        <<"failed to close log file">>, EmptyFields, NoTime)
       IN last' = [NoHist EXCEPT !.op = "Replace", !.lg = th[t].lg, !.new = th[t].new,
                                 !.fileBefore = file[th[t].lg], !.closed = th[t].closed,
                                 !.closeErr = th[t].closeErr,
                                 !.errVia = IF th[t].closeErr THEN via ELSE NoLogger,
                                 !.wrote = o.wrote, !.rec = o.rec]
    /\ th' = [th EXCEPT ![t] = IdleThread]
    /\ UNCHANGED <<level, enabled, formatter, out, file, logger, closes, hooks, regLog,
                   entry, lastSet, exited>>

\* a leveled method of defaultLogger up to the engine taking the record: the
\* gate and the level are read here
CallStart(t, l, m) ==
    /\ Running(t)
    /\ IF Gate(l) /\ IsLevelEnabled(l, MethodLevel(m))
       THEN /\ th' = [th EXCEPT ![t] = [IdleThread EXCEPT !.pc = "writing", !.lg = l,
                                                          !.method = m]]
            /\ last' = [NoHist EXCEPT !.op = "log.start", !.lg = l, !.method = m]
       ELSE /\ th' = th
            /\ last' = [NoHist EXCEPT !.op = "log", !.via = "logger", !.lg = l,
                                      !.method = m, !.enabledBefore = enabled[l],
                                      !.levelBefore = level[l]]
    /\ UNCHANGED <<level, enabled, formatter, out, file, logger, closes, hooks, regLog,
                   entry, lastSet, exited>>

\* the engine formats the record and writes it to log.inner.Out
CallWrite(t) ==
    /\ ~exited
    /\ th[t].pc = "writing"
    /\ last' = [NoHist EXCEPT !.op = "log", !.via = "logger", !.lg = th[t].lg,
                              !.method = th[t].method, !.wrote = TRUE,
                              !.rec = Render(th[t].lg, MethodLevel(th[t].method),
                                             <<"hello">>, EmptyFields, NoTime)]
    /\ th' = [th EXCEPT ![t] = IdleThread]
    /\ UNCHANGED <<level, enabled, formatter, out, file, logger, closes, hooks, regLog,
                   entry, lastSet, exited>>

-----------------------------------------------------------------------------
(* Construction: every logger comes from CreateDefaultLogger; the package   *)
(* starts with one of them as the process-wide logger.                     *)

\* CreateDefaultLogger: rlog.New() (level info, output stderr), the masking
\* formatter, enabled
Init ==
    /\ level = [l \in Loggers |-> 4]
    /\ enabled = [l \in Loggers |-> TRUE]
    /\ formatter = [l \in Loggers |-> "sf"]
    /\ out = [l \in Loggers |-> Stderr]
    /\ file = [l \in Loggers |-> NoFile]
    /\ logger = "L1"
    /\ closes = [f \in Files |-> 0]
    /\ hooks = [k \in {} |-> ""]
    /\ regLog = <<>>
    /\ entry = NoEntry
    /\ lastSet = [l \in Loggers |-> "none"]
    /\ last = NoHist
    /\ th = [t \in Threads |-> IdleThread]
    /\ exited = FALSE

\* the logger the single-logger specifications exercise
Subject == "L1"

\* level, gate and enrichment of one logger: every level name, every leveled
\* method on the logger and on each kind of derived entry
Next ==
    \/ \E name \in LevelInputs : SetLogLevel(Subject, name)
    \/ \E m \in MethodNames, form \in Forms : LeveledCall(Subject, m, form, <<"hello">>)
    \/ \E m \in MethodNames, form \in Forms : EntryCall(m, form, <<"hello">>)
    \/ WithField(Subject, "k", <<"v">>)
    \/ WithFields(Subject, ("field" :> <<"test">>) @@ ("k" :> <<"v">>))
    \/ \E e \in ErrValues : WithError(Subject, e)
    \/ WithTime(Subject, "t1")
    \/ \E c \in {<<>>, <<(SFSessionIDKey :> <<"sessID1">>)>>} : WithContext(Subject, c)

Spec == Init /\ [][Next]_vars

\* masking: messages with and without a secret, under both formatters, through
\* the logger and through derived entries, among the configuration calls
NextMask ==
    \/ \E name \in {sOFF, sDebug, sUnknown} : SetLogLevel(Subject, name)
    \/ \E s \in {Stderr, "F1"} : SetOutput(Subject, s)
    \/ \E f \in {"sf", "plain"} : SetFormatter(Subject, f)
    \/ \E m \in MethodNames, form \in Forms, text \in Texts : LeveledCall(Subject, m, form, text)
    \/ \E m \in MethodNames, form \in Forms, text \in Texts : EntryCall(m, form, text)
    \/ \E v \in FieldValues : WithField(Subject, "query", v)
    \/ \E v \in FieldValues : WithFields(Subject, ("field" :> <<"test">>) @@ ("query" :> v))
    \/ \E e \in ErrValues : WithError(Subject, e)
    \/ WithTime(Subject, "t1")
    \/ WithContext(Subject, <<Background>>)

SpecMask == Init /\ [][NextMask]_vars

\* context2Fields over every list of contexts, under every registry
NextCtx ==
    \/ \E key \in HookKeys, h \in HookFns : RegisterLogContextHook(key, h)
    \/ \E ctxs \in CtxLists : WithContext(Subject, ctxs)

SpecCtx == Init /\ [][NextCtx]_vars

\* the file lifecycle of two loggers under one caller
Caller == "T1"

NextFile ==
    \/ \E l \in Loggers, f \in Files \cup {NoFile} : CloseFileOnLoggerReplace(l, f)
    \/ \E l \in Loggers, s \in {Stderr, "F1"} : SetOutput(l, s)
    \/ \E l \in Loggers, name \in {sOFF, sInfo} : SetLogLevel(l, name)
    \/ \E l \in Loggers : SetLogger(l)
    \/ \E l \in Loggers, new \in Loggers : ReplaceSwap(Caller, l, new)
    \/ ReplaceClose(Caller)
    \/ ReplaceReturn(Caller)

SpecFile == Init /\ [][NextFile]_vars

\* two threads: leveled calls racing with Replace, after a logger was given a
\* file as its output and as its file to close
NextConc ==
    \/ \E l \in Loggers : SetOutput(l, "F1")
    \/ \E l \in Loggers : CloseFileOnLoggerReplace(l, "F1")
    \/ \E t \in Threads, l \in Loggers, m \in {"Info", "Debug"} : CallStart(t, l, m)
    \/ \E t \in Threads : CallWrite(t)
    \/ \E t \in Threads, l \in Loggers, new \in Loggers : ReplaceSwap(t, l, new)
    \/ \E t \in Threads : ReplaceClose(t)
    \/ \E t \in Threads : ReplaceReturn(t)

SpecConc == Init /\ [][NextConc]_vars

-----------------------------------------------------------------------------
(* The claims.                                                             *)

OffNames == {<<"O","F","F">>, <<"o","f","f">>, <<"O","f","f">>}
DirectCall(l) == last.op = "log" /\ last.via = "logger" /\ last.lg = l
EntryLog(l) == last.op = "log" /\ last.via = "entry" /\ last.lg = l

\* C1: SetLogLevel("OFF"), in any letter case, returns no error; from then until the
\* logger's next SetLogLevel call GetLogLevel returns "OFF" and none of the 27
\* leveled methods called on the logger writes anything.
C1_OffSilencesLogger ==
    /\ (last.op = "SetLogLevel" /\ last.name \in OffNames)
          => (~last.err /\ lastSet[last.lg] = "off")
    /\ \A l \in Loggers :
          lastSet[l] = "off" =>
             /\ GetLogLevel(l) = <<"O","F","F">>
             /\ DirectCall(l) => (~last.wrote /\ last.rec = NoRec)

C1_Witness ==
    /\ lastSet[Subject] = "off"
    /\ DirectCall(Subject)
    /\ last.method = "Error"
    /\ last.form = "ln"
    /\ last.levelBefore = 6

\* C2: while a logger is disabled, a leveled call on an entry derived from it
\* (WithField, WithFields, WithError, WithTime, WithContext) writes nothing, as a
\* leveled call on the logger itself writes nothing.
C2_OffSilencesEntries ==
    \A l \in Loggers : (EntryLog(l) /\ ~last.enabledBefore) => ~last.wrote

\* C3: a SetLogLevel call that fails on an unrecognized name leaves the logger's
\* enabled state as it was before the call.
C3_FailedSetKeepsEnabled ==
    (last.op = "SetLogLevel" /\ last.err) => enabled[last.lg] = last.enabledBefore

\* C4 as stated: for every valid severity name in any letter case, SetLogLevel
\* returns no error and GetLogLevel then returns the name in lower case.
C4_GetReturnsLowerCasedName ==
    (last.op = "SetLogLevel" /\ ToLower(last.name) \in SeverityNames)
       => (~last.err /\ GetLogLevel(last.lg) = ToLower(last.name))

\* C4: for every valid severity name in any letter case, SetLogLevel returns no
\* error and GetLogLevel then returns the engine's name of the level: the name in
\* lower case, except that "warn" is reported as "warning".
C4_GetReturnsLevelName ==
    (last.op = "SetLogLevel" /\ ToLower(last.name) \in SeverityNames)
       => /\ ~last.err
          /\ GetLogLevel(last.lg) =
                IF ToLower(last.name) = <<"w","a","r","n">>
                THEN <<"w","a","r","n","i","n","g">>
                ELSE ToLower(last.name)

C4_Witness ==
    /\ last.op = "SetLogLevel"
    /\ last.name = <<"W","a","r","n">>
    /\ ~last.enabledBefore
    /\ last.levelBefore = 6
    /\ GetLogLevel(last.lg) = <<"w","a","r","n","i","n","g">>

\* a logger fresh from CreateDefaultLogger: enabled, at level info
C5_Fresh ==
    /\ last.op = "CreateDefaultLogger" => \A l \in Loggers : enabled[l] /\ level[l] = 4
    /\ \A l \in Loggers :
          (DirectCall(l) /\ lastSet[l] = "none") =>
             /\ last.method \in {"Info", "Print", "Warn", "Warning", "Error"} => last.wrote
             /\ last.method \in {"Debug", "Trace"} => ~last.wrote

C5_Urgency ==
    [m \in MethodNames |->
        IF m = "Panic" THEN 0
        ELSE IF m = "Fatal" THEN 1
        ELSE IF m = "Error" THEN 2
        ELSE IF m \in {"Warn", "Warning"} THEN 3
        ELSE IF m \in {"Info", "Print"} THEN 4
        ELSE IF m = "Debug" THEN 5
        ELSE 6]

C6_RegisteredFileIsKept ==
    /\ [](last.op = "CloseFileOnLoggerReplace" =>
            /\ (last.fileBefore # NoFile /\ last.arg = last.fileBefore)
                  => (~last.err /\ file[last.lg] = last.fileBefore)
            /\ (last.fileBefore # NoFile /\ last.arg # last.fileBefore)
                  => (last.err /\ file[last.lg] = last.fileBefore)
            /\ last.fileBefore = NoFile => (~last.err /\ file[last.lg] = last.arg))
    /\ [][\A l \in Loggers : file[l] # NoFile => file'[l] = file[l]]_vars

C6_Witness ==
    /\ last.op = "CloseFileOnLoggerReplace"
    /\ last.fileBefore = "F1"
    /\ last.arg = "F2"
    /\ last.err
    /\ file[last.lg] = "F1"

\* C7: Replace(newLogger) first makes newLogger the process-wide logger and only
\* then closes the receiver's registered file, if any; it returns normally; a
\* failed close is reported by one Errorf call on the new process-wide logger (one
\* error-level record when that logger is enabled and admits the error level),
\* not on the receiver when the two differ.
C7_ReplaceSwapsThenCloses ==
    /\ \A t \in Threads :
          th[t].pc \in {"swapped", "closed"} => logger = th[t].new
    /\ \A t \in Threads : th[t].pc = "swapped" => th[t].closed = NoFile
    /\ last.op = "Replace" =>
          /\ logger = last.new
          /\ ~exited
          /\ last.closed = last.fileBefore
          /\ last.fileBefore = NoFile => ~last.closeErr
          /\ ~last.closeErr => (~last.wrote /\ last.errVia = NoLogger)
          /\ last.closeErr =>
                /\ last.errVia = last.new
                /\ last.new # last.lg => last.errVia # last.lg
                /\ last.wrote <=> (enabled[last.new] /\ level[last.new] >= 2)
                /\ last.wrote => (last.rec.lg = last.new /\ last.rec.level = 2)

C7_Witness ==
    /\ last.op = "Replace"
    /\ last.closeErr
    /\ last.wrote
    /\ last.new # last.lg
    /\ last.rec.lg = last.new

\* C8: the file of a replaced logger is not closed while a leveled call that began
\* on that logger before the replacement is still writing to the file.
C8_NoCloseUnderInFlightCall ==
    \A r \in Threads, u \in Threads :
        ~ /\ th[r].pc = "closed"
          /\ th[r].closed # NoFile
          /\ th[u].pc = "writing"
          /\ th[u].preSwap
          /\ th[u].lg = th[r].lg
          /\ out[th[u].lg] = th[r].closed

C9_Max(S) == CHOOSE x \in S : \A y \in S : y <= x
C9_Registered == {regLog[i].key : i \in 1..Len(regLog)}
C9_LastHook(k) == regLog[C9_Max({i \in 1..Len(regLog) : regLog[i].key = k})].hook
C9_Holders(ctxs, k) == {j \in 1..Len(ctxs) : k \in DOMAIN ctxs[j]}
C9_Hits(ctxs, k) == {j \in 1..Len(ctxs) : CallHook(C9_LastHook(k), ctxs[j]) # <<>>}
C9_HookKeys(ctxs) == {k \in C9_Registered : C9_Hits(ctxs, k) # {}}
C9_Expected(ctxs) ==
    [k \in {k \in {"LOG_SESSION_ID", "LOG_USER"} : C9_Holders(ctxs, k) # {}}
           \cup C9_HookKeys(ctxs) |->
        IF k \in C9_HookKeys(ctxs)
        THEN CallHook(C9_LastHook(k), ctxs[C9_Max(C9_Hits(ctxs, k))])
        ELSE ctxs[C9_Max(C9_Holders(ctxs, k))][k]]

\* C9: WithContext attaches exactly: per well-known key, the value of the last
\* context holding one; per registered hook key (the hook registered last for
\* it), the last non-empty string the hook returns, written after the well-known
\* keys; nothing else; and with no context, nothing, calling no hook.
C9_FieldsOfContexts ==
    last.op = "WithContext" =>
       /\ entry.data = C9_Expected(last.ctxs)
       /\ Len(last.ctxs) = 0 => (DOMAIN entry.data = {} /\ last.calls = 0)
       /\ Len(last.ctxs) > 0 => last.calls = Cardinality(C9_Registered) * Len(last.ctxs)

C9_Witness ==
    /\ last.op = "WithContext"
    /\ Len(last.ctxs) = 2
    /\ "LOG_SESSION_ID" \in DOMAIN last.ctxs[1]
    /\ "LOG_SESSION_ID" \in DOMAIN last.ctxs[2]
    /\ last.ctxs[1]["LOG_SESSION_ID"] # last.ctxs[2]["LOG_SESSION_ID"]
    /\ "LOG_USER" \in DOMAIN last.ctxs[2]
    /\ "LOG_USER" \in C9_HookKeys(last.ctxs)
    /\ Len(regLog) = 2
    /\ regLog[1].key = regLog[2].key
    /\ regLog[1].hook # regLog[2].hook
    /\ entry.data["LOG_SESSION_ID"] = last.ctxs[2]["LOG_SESSION_ID"]
    /\ entry.data["LOG_USER"] # last.ctxs[2]["LOG_USER"]

C10_Secret == "testpassword'"
C10_Shows(text) == \E i \in 1..Len(text) : text[i] = C10_Secret
C10_FieldsKept(l) ==
    last.rec.data = IF last.via = "entry" THEN entry.data ELSE EmptyFields

\* C10 as stated: every record a logger from CreateDefaultLogger writes carries
\* the masked message, whichever method or entry produced it and after any
\* sequence of configuration calls; field values are written unmasked.
C10_EveryRecordMasked ==
    (last.op = "log" /\ last.wrote) =>
       /\ last.rec.msg = maskSecrets(last.text)
       /\ ~C10_Shows(last.rec.msg)
       /\ C10_FieldsKept(last.lg)

\* C10: while the logger keeps the formatter CreateDefaultLogger installed (no
\* SetFormatter call has replaced it), every record it writes carries the masked
\* message, whichever method or entry produced it; field values are written
\* unmasked.
C10_RecordMaskedUnderSfFormatter ==
    (last.op = "log" /\ last.wrote /\ formatter[last.lg] = "sf") =>
       /\ last.rec.msg = maskSecrets(last.text)
       /\ ~C10_Shows(last.rec.msg)
       /\ C10_FieldsKept(last.lg)

C10_Witness ==
    /\ EntryLog(Subject)
    /\ last.wrote
    /\ formatter[Subject] = "sf"
    /\ C10_Shows(last.text)
    /\ last.rec.msg # last.text
    /\ "query" \in DOMAIN last.rec.data
    /\ C10_Shows(last.rec.data["query"])

\* C11: SetLogLevel changes the engine's level only when given a recognized
\* severity name: an OFF (any case) and a call that fails on an unrecognized name
\* leave the level as it was, no other call changes it, and so the level in force
\* before an OFF is in force again when a failed call re-enables the logger.
C11_LevelChangesOnlyOnSeverityName ==
    /\ [](last.op = "SetLogLevel" =>
            /\ (last.name \in OffNames \/ last.err) => level[last.lg] = last.levelBefore
            /\ last.err <=> (last.name \notin OffNames /\ ToLower(last.name) \notin SeverityNames))
    /\ [][\A l \in Loggers :
             level'[l] # level[l] =>
                /\ last'.op = "SetLogLevel"
                /\ last'.lg = l
                /\ ~last'.err
                /\ ToLower(last'.name) \in SeverityNames]_vars

C11_Witness ==
    /\ last.op = "SetLogLevel"
    /\ last.err
    /\ ~last.enabledBefore
    /\ enabled[last.lg]
    /\ last.levelBefore = 6
    /\ level[last.lg] = 6

\* C12: over any sequence of CloseFileOnLoggerReplace, SetLogger and Replace
\* calls, Close is called on a registered file at most once.
C12_FileClosedAtMostOnce ==
    \A f \in Files : closes[f] <= 1

====
